---- MODULE Spec2Model ----
(***************************************************************************)
(* demo-builder: the route-application engine (apply / apply_route), the   *)
(* keyed data store behind req.data (cfg.data_fn) and the loopback client  *)
(* (LOOPBACK), as one state machine.  Configurations are applied in one     *)
(* process and requests are served concurrently on one event loop.  The    *)
(* configurations are the one of src/main.ts and two that exercise apply() *)
(* with handlers of every kind.                                            *)
(***************************************************************************)
EXTENDS Integers, Sequences, FiniteSets, TLC

(* ------------------------------ bounds --------------------------------- *)
\* Requests (client requests and loopback requests together) in one run.
MaxReq == 3
\* Client requests in one run.
MaxClient == 2
\* Numbers kept in the store are 0..MaxVal.
MaxVal == 1

(* --------------------------- JavaScript values ------------------------- *)
\* A value is a record: t is its kind, n its number, s its text.
Undefined == [t |-> "undefined", n |-> 0, s |-> ""]
Num(n) == [t |-> "number", n |-> n, s |-> ""]
Str(s) == [t |-> "string", n |-> 0, s |-> s]
\* new Error(m)
ErrorObj(m) == [t |-> "error", n |-> 0, s |-> m]
\* new TypeError(m)
TypeErrorObj(m) == [t |-> "typeerror", n |-> 0, s |-> m]
\* new SyntaxError(m)
SyntaxErrorObj(m) == [t |-> "syntaxerror", n |-> 0, s |-> m]
\* The plain objects {a: n} and {}.
Obj(n) == [t |-> "object", n |-> n, s |-> "a"]
EmptyObj == [t |-> "object", n |-> 0, s |-> ""]
\* The BigInt n (written 1n for n = 1).
BigIntVal(n) == [t |-> "bigint", n |-> n, s |-> ""]
\* The object o of const o = {}; o.self = o, which holds itself.
Circular == [t |-> "circular", n |-> 0, s |-> "self"]
RECURSIVE RowsText(_)
\* The JSON texts of the rows {world: w} of a table, joined as
\* JSON.stringify joins the elements of an array.
RowsText(q) ==
    IF q = << >> THEN ""
    ELSE IF Len(q) = 1 THEN "{\"world\":\"" \o q[1] \o "\"}"
    ELSE "{\"world\":\"" \o q[1] \o "\"}," \o RowsText(Tail(q))

\* What db.all("SELECT * FROM Hello") gives for the table q, the world of
\* each row in the order of insertion: the rows {world: q[i]}.
Rows(q) == [t |-> "rows", n |-> Len(q), s |-> RowsText(q)]
\* What db.run(...) gives for the insert of row n, {stmt, lastID, changes},
\* with c changes counted.
RunResult(n, c) == [t |-> "run", n |-> n, s |-> ToString(c)]
\* Object.prototype.toString, the member every plain object inherits.
ProtoFn == [t |-> "function", n |-> 0, s |-> "toString"]

\* typeof v
TypeOf(v) ==
    IF v.t \in {"error", "typeerror", "syntaxerror", "rows", "run", "circular"}
    THEN "object"
    ELSE v.t

\* if (v): the values a condition takes as true.
Truthy(v) ==
    CASE v.t = "undefined" -> FALSE
      [] v.t \in {"number", "bigint"} -> v.n # 0
      [] v.t = "string" -> v.s # ""
      [] OTHER -> TRUE

RECURSIVE RowsJoin(_, _, _)
\* n copies of a text, joined: Array.prototype.join.
RowsJoin(n, text, sep) ==
    IF n = 0 THEN "" ELSE IF n = 1 THEN text
    ELSE text \o sep \o RowsJoin(n - 1, text, sep)

\* String(v), as "" + v computes it.
ToStr(v) ==
    CASE v.t = "undefined" -> "undefined"
      [] v.t \in {"number", "bigint"} -> ToString(v.n)
      [] v.t = "string" -> v.s
      [] v.t = "error" -> "Error: " \o v.s
      [] v.t = "typeerror" -> "TypeError: " \o v.s
      [] v.t = "syntaxerror" -> "SyntaxError: " \o v.s
      [] v.t \in {"object", "run", "circular"} -> "[object Object]"
      [] v.t = "rows" -> IF v.n = 0 THEN "" ELSE RowsJoin(v.n, "[object Object]", ",")
      [] OTHER -> "function " \o v.s \o "() { [native code] }"

(* --------------------------- keyed data store -------------------------- *)
\* Keys handlers use; "toString" is also a member of Object.prototype.
Keys == {"k", "toString"}
ProtoKeys == {"toString"}
\* Default arguments of req.data; Undefined is the omitted argument.
Defaults == {Undefined, Num(MaxVal)}
\* No update closure passed.
NoClosure == "none"
\* Update closures handlers pass:
\*   inc   v => typeof v == "number" ? (v + 1) % (MaxVal + 1) : 0
\*   clear v => undefined
\*   fail  v => { throw new Error("bad") }
\*   ainc  async v => typeof v == "number" ? (v + 1) % (MaxVal + 1) : 0
\*   afail async v => { throw new Error("bad") }
Closures == {"inc", "clear", "fail", "ainc", "afail"}

Inc(v) == IF v.t = "number" THEN Num((v.n + 1) % (MaxVal + 1)) ELSE Num(0)

\* closure(val): a value, a throw, or a promise that settles later with
\* the outcome computed here from val.
CallClosure(c, val) ==
    CASE c = "inc" -> [kind |-> "value", ok |-> TRUE, val |-> Inc(val)]
      [] c = "clear" -> [kind |-> "value", ok |-> TRUE, val |-> Undefined]
      [] c = "fail" -> [kind |-> "throw", ok |-> FALSE, val |-> ErrorObj("bad")]
      [] c = "ainc" -> [kind |-> "promise", ok |-> TRUE, val |-> Inc(val)]
      [] OTHER -> [kind |-> "promise", ok |-> FALSE, val |-> ErrorObj("bad")]

\* const data = cfg.data = cfg.data || {}
EmptyStore == [k \in {} |-> Undefined]

\* data[key]: an own property, else what the plain object inherits.
Lookup(d, key) ==
    IF key \in DOMAIN d THEN d[key]
    ELSE IF key \in ProtoKeys THEN ProtoFn
    ELSE Undefined

\* data[key] = v
Put(d, key, v) == [k \in DOMAIN d \cup {key} |-> IF k = key THEN v ELSE d[k]]

\* A mutant of data_fn: a default that is passed is stored even when the
\* key has a value.
data_fn_default_always(d, key, def, closure) ==
    LET val == Lookup(d, key) IN
    IF TypeOf(val) = "undefined" \/ TypeOf(def) # "undefined"
    THEN [data |-> Put(d, key, def), kind |-> "value", ret |-> def, ok |-> TRUE,
          wrote |-> "default"]
    ELSE [data |-> d, kind |-> "value", ret |-> val, ok |-> TRUE, wrote |-> "none"]

\* A mutant of data_fn: a synchronous update is returned but not stored.
data_fn_no_store(d, key, def, closure) ==
    LET val == Lookup(d, key) IN
    IF TypeOf(val) = "undefined"
    THEN [data |-> Put(d, key, def), kind |-> "value", ret |-> def, ok |-> TRUE,
          wrote |-> "default"]
    ELSE IF closure # NoClosure
    THEN LET out == CallClosure(closure, val) IN
         [data |-> d, kind |-> out.kind, ret |-> out.val, ok |-> out.ok,
          wrote |-> "none"]
    ELSE [data |-> d, kind |-> "value", ret |-> val, ok |-> TRUE, wrote |-> "none"]

\* A mutant of data_fn: the store is written with the promise's outcome
\* before the promise has settled.
data_fn_eager(d, key, def, closure) ==
    LET val == Lookup(d, key) IN
    IF TypeOf(val) = "undefined"
    THEN [data |-> Put(d, key, def), kind |-> "value", ret |-> def, ok |-> TRUE,
          wrote |-> "default"]
    ELSE IF closure # NoClosure
    THEN LET out == CallClosure(closure, val) IN
         IF out.kind = "throw"
         THEN [data |-> d, kind |-> "throw", ret |-> out.val, ok |-> FALSE,
               wrote |-> "none"]
         ELSE [data |-> Put(d, key, out.val), kind |-> out.kind, ret |-> out.val,
               ok |-> out.ok, wrote |-> "update"]
    ELSE [data |-> d, kind |-> "value", ret |-> val, ok |-> TRUE, wrote |-> "none"]

\* cfg.data_fn(key, def, closure), up to its return: the store afterwards,
\* the assignment that wrote it ("default": data[key] = def, "update":
\* data[key] = out, or "none"), and what the caller gets: a value, a throw,
\* or a pending promise (kind "promise": ret and ok are what the closure's
\* promise will settle with).
data_fn(d, key, def, closure) ==
    LET val == Lookup(d, key) IN
    IF TypeOf(val) = "undefined"
    THEN [data |-> Put(d, key, def), kind |-> "value", ret |-> def, ok |-> TRUE,
          wrote |-> "default"]
    ELSE IF closure # NoClosure
    THEN LET out == CallClosure(closure, val) IN
         CASE out.kind = "throw" ->
                [data |-> d, kind |-> "throw", ret |-> out.val, ok |-> FALSE,
                 wrote |-> "none"]
           [] out.kind = "promise" ->
                [data |-> d, kind |-> "promise", ret |-> out.val, ok |-> out.ok,
                 wrote |-> "none"]
           [] OTHER ->
                [data |-> Put(d, key, out.val), kind |-> "value",
                 ret |-> out.val, ok |-> TRUE, wrote |-> "update"]
    ELSE [data |-> d, kind |-> "value", ret |-> val, ok |-> TRUE, wrote |-> "none"]

\* A mutant of data_settle: at resolution the update is applied again, to
\* the value the store holds then.
data_settle_reread(d, key, ok, val) ==
    IF ok
    THEN [data |-> Put(d, key, Inc(Lookup(d, key))), kind |-> "fulfilled",
          ret |-> Inc(Lookup(d, key)), wrote |-> "update"]
    ELSE [data |-> d, kind |-> "rejected", ret |-> Str(ToStr(val)), wrote |-> "none"]

\* A mutant of data_settle: the outcome is stored whether the update
\* succeeded or failed.
data_settle_store_error(d, key, ok, val) ==
    [data |-> Put(d, key, val), kind |-> IF ok THEN "fulfilled" ELSE "rejected",
     ret |-> IF ok THEN val ELSE Str(ToStr(val)),
     wrote |-> "update"]

\* The executor of the promise data_fn returns, once the closure's promise
\* has settled: ok(data[key] = val), or err(e?.toString()).
data_settle(d, key, ok, val) ==
    IF ok
    THEN [data |-> Put(d, key, val), kind |-> "fulfilled",
          ret |-> Put(d, key, val)[key], wrote |-> "update"]
    ELSE [data |-> d, kind |-> "rejected", ret |-> Str(ToStr(val)), wrote |-> "none"]

(* ------------------------------ responses ------------------------------ *)
\* The response of a request nothing has been written to.
NoResponse == [sent |-> FALSE, status |-> 200, ctype |-> "", body |-> ""]

\* JSON.stringify(v): the JSON text, as a string; undefined for a
\* function, which has no JSON text; or the TypeError it throws (threw)
\* for a BigInt and for an object that holds itself.  An Error has no
\* enumerable member.
JSONstringify(v) ==
    CASE v.t = "number" -> [threw |-> FALSE, val |-> Str(ToString(v.n))]
      [] v.t = "string" -> [threw |-> FALSE, val |-> Str("\"" \o v.s \o "\"")]
      [] v.t = "object" ->
            [threw |-> FALSE,
             val |-> Str(IF v.s = "" THEN "{}"
                         ELSE "{\"" \o v.s \o "\":" \o ToString(v.n) \o "}")]
      [] v.t \in {"error", "typeerror", "syntaxerror"} ->
            [threw |-> FALSE, val |-> Str("{}")]
      [] v.t = "rows" -> [threw |-> FALSE, val |-> Str("[" \o v.s \o "]")]
      [] v.t = "run" ->
            [threw |-> FALSE,
             val |-> Str("{\"stmt\":{},\"lastID\":" \o ToString(v.n)
                            \o ",\"changes\":" \o v.s \o "}")]
      [] v.t = "bigint" ->
            [threw |-> TRUE, val |-> TypeErrorObj("Do not know how to serialize a BigInt")]
      [] v.t = "circular" ->
            [threw |-> TRUE,
             val |-> TypeErrorObj("Converting circular structure to JSON\n"
                        \o "    --> starting at object with constructor 'Object'\n"
                        \o "    --- property '" \o v.s \o "' closes the circle")]
      [] OTHER -> [threw |-> FALSE, val |-> Undefined]

\* The world a client may put in the JSON body of its request, as
\* req.body?.world reads it: Undefined with no body or no such member.
Worlds == {Undefined, Str(""), Str("mars")}
\* req.body?.world || "world"
WorldOf(w) == IF Truthy(w) THEN w.s ELSE "world"
\* The tables of up to MaxReq rows clients can have filled.
Tables == UNION {[1..n -> {WorldOf(w) : w \in Worlds}] : n \in 0..MaxReq}

\* The values JSON texts of the model stand for.
JsonValues ==
    {Num(n) : n \in 0..MaxVal} \cup {Obj(n) : n \in 0..MaxVal}
        \cup {Rows(q) : q \in Tables} \cup {EmptyObj, Str("Hello")}

\* JSON.parse(text): the value the text stands for; ok is FALSE when the
\* text is not JSON (the empty text).
JSONparse(text) ==
    IF \E v \in JsonValues : JSONstringify(v).val = Str(text)
    THEN [ok |-> TRUE, val |-> CHOOSE v \in JsonValues : JSONstringify(v).val = Str(text)]
    ELSE [ok |-> FALSE, val |-> SyntaxErrorObj("Unexpected end of JSON input")]

\* res.end(s): the string as it is.
ResEnd(res, v) == [res EXCEPT !.sent = TRUE, !.body = v.s]
\* res.json(v), for a value JSON.stringify does not throw for: the body
\* is its JSON text, and is empty when it has none.
ResJson(res, v) ==
    [res EXCEPT !.sent = TRUE, !.ctype = "application/json",
                !.body = JSONstringify(v).val.s]
\* res.status(500); res.send("Error! " + e)
ResError(res, e) ==
    [res EXCEPT !.sent = TRUE, !.status = 500, !.ctype = "text/html",
                !.body = "Error! " \o ToStr(e)]

\* The catch block of apply_route, entered with e: res.status(500);
\* res.send("Error! " + e).  On a response the handler has sent already
\* res.send throws (the headers are out), and that failure leaves the
\* wrapped handler (escaped).
Catch(res, e) ==
    IF res.sent THEN [res |-> res, escaped |-> TRUE]
    ELSE [res |-> ResError(res, e), escaped |-> FALSE]

\* A mutant of apply_route: every defined result is sent with res.json.
apply_route_always_json(res, threw, v) ==
    IF threw THEN Catch(res, v)
    ELSE IF TypeOf(v) = "undefined" THEN [res |-> res, escaped |-> FALSE]
    ELSE IF res.sent
    THEN Catch(res, ErrorObj("Cannot set headers after they are sent to the client"))
    ELSE IF JSONstringify(v).threw THEN Catch(res, JSONstringify(v).val)
    ELSE [res |-> ResJson(res, v), escaped |-> FALSE]

\* The wrapped handler of apply_route once route(req, res) has returned v
\* or thrown v (threw), res being what the handler has done to the
\* response itself: the response, and whether a failure left the wrapper.
\* A string goes to res.end (which sends nothing more on a response that
\* is sent already); any other defined value goes to res.json, which
\* throws, inside the try, what JSON.stringify throws, and on a response
\* that is sent already.
apply_route(res, threw, v) ==
    IF threw THEN Catch(res, v)
    ELSE IF TypeOf(v) = "undefined" THEN [res |-> res, escaped |-> FALSE]
    ELSE IF TypeOf(v) = "string"
    THEN [res |-> IF res.sent THEN res ELSE ResEnd(res, v), escaped |-> FALSE]
    ELSE IF res.sent
    THEN Catch(res, ErrorObj("Cannot set headers after they are sent to the client"))
    ELSE IF JSONstringify(v).threw THEN Catch(res, JSONstringify(v).val)
    ELSE [res |-> ResJson(res, v), escaped |-> FALSE]

\* A mutant of handle_body: a response that is not a success fails the
\* call.
handle_body_check_status(res) ==
    IF res.status >= 400
    THEN [ok |-> FALSE, val |-> ErrorObj(ToString(res.status))]
    ELSE IF res.ctype = "application/json" THEN JSONparse(res.body)
    ELSE [ok |-> TRUE, val |-> Str(res.body)]

\* handle_body(resp): resp.json() when the content type says JSON, else
\* resp.text(), whatever the status.  ok is FALSE when the promise is
\* rejected: the JSON text does not parse.
handle_body(res) ==
    IF res.ctype = "application/json"
    THEN JSONparse(res.body)
    ELSE [ok |-> TRUE, val |-> Str(res.body)]

(* ---------------------------- configuration ---------------------------- *)
\* The configurations apply() is called with, each with its own app:
\* two that exercise apply() with handlers of every kind (1: no port, a
\* database with migrations, a middleware; 2: port 8001, no database),
\* and the configuration of src/main.ts.
Services == {1, 2, 3}
TestServices == {1, 2}
MainService == 3
\* cfg.port; 0 is an omitted port.
CfgPort(s) == IF s = 1 THEN 0 ELSE IF s = 2 THEN 8001 ELSE 8000
DefaultPort == 8000
\* const port = cfg.port || 8000
PortOf(s) == IF CfgPort(s) # 0 THEN CfgPort(s) ELSE DefaultPort
\* cfg.db?.url
CfgDb(s) == s \in {1, MainService}
\* cfg.db.migrations
CfgMigrations(s) == s \in {1, MainService}
\* cfg.middleware
CfgMiddleware(s) == IF s = 1 THEN << "session" >> ELSE << >>

Methods == {"get", "post", "put", "patch", "delete"}
NoHandler == "none"

\* The routes of src/main.ts, in insertion order.
MainRoutes ==
    << [path |-> "/hello", methods |-> << [method |-> "get", handler |-> "hello"] >>],
       [path |-> "/world", methods |-> << [method |-> "get", handler |-> "world"] >>],
       [path |-> "/db", methods |-> << [method |-> "get", handler |-> "rows"],
                                       [method |-> "post", handler |-> "insert"] >>] >>

\* The route maps of the configurations that exercise apply(): handlers
\* of every kind, and a handler that uses req.db with and without a
\* database configured.
TestRoutes(s) ==
    IF s = 1
    THEN << [path |-> "/hello", methods |-> << [method |-> "get", handler |-> "hello"],
                                               [method |-> "post", handler |-> "void"],
                                               [method |-> "delete", handler |-> "boom"],
                                               [method |-> "put", handler |-> "big"],
                                               [method |-> "patch", handler |-> "cycle"] >>],
            [path |-> "/world", methods |-> << [method |-> "get", handler |-> "world"],
                                               [method |-> "post", handler |-> "relay"],
                                               [method |-> "put", handler |-> "method"],
                                               [method |-> "patch", handler |-> "object"],
                                               [method |-> "delete", handler |-> "report"] >>],
            [path |-> "/data", methods |-> << [method |-> "get", handler |-> "counter"],
                                              [method |-> "post", handler |-> "early"] >>],
            [path |-> "/db", methods |-> << [method |-> "get", handler |-> "dump"] >>] >>
    ELSE << [path |-> "/hello", methods |-> << [method |-> "get", handler |-> "hola"] >>],
            [path |-> "/HELLO", methods |-> << [method |-> "get", handler |-> "hello"] >>],
            [path |-> "/world", methods |-> << [method |-> "get", handler |-> "world"] >>],
            [path |-> "/db", methods |-> << [method |-> "get", handler |-> "dump"] >>] >>

\* cfg.routes, in insertion order.
CfgRoutes(s) == IF s = MainService THEN MainRoutes ELSE TestRoutes(s)

\* What the handlers do.  Those of src/main.ts:
\*   hello    () => "Hello"
\*   world    async req => (await req.get("/hello")) + " world!"
\*   rows     async req => { req.db.dump_table("Hello").then()
\*                           return req.db.all("SELECT * FROM Hello") }
\*   insert   req => req.db.run("INSERT INTO Hello(world) VALUES (?)
\*                   RETURNING ROWID", req.body?.world || "world")
\* Those of the other configurations:
\*   hello    () => "Hello"                  hola  () => "Hola"
\*   void     () => {}                       boom  () => { throw new Error("boom") }
\*   world    async req => (await req.get("/hello")) + " world!"
\*   counter  async req => await req.data(key, def, closure), for any
\*            key, default and update closure of the sets above
\*   relay    req => req[method]("/world", body), any of the five methods,
\*            or req.post("/hello", body), or req.delete("/hello")
\*   method   () => Object.prototype.toString
\*   object   () => ({a: 1})
\*   report   () => new Error("late")
\*   big      () => 1n
\*   cycle    () => { const o = {}; o.self = o; return o }
\*   early    (req, res) => { res.end("Early"); throw new Error("after") }
\*   dump     req => req.db.dump_table(name, limit, offset), for any name,
\*            limit and offset of the sets below
DataHandlers == {"counter"}
LoopHandlers == {"world", "relay"}
DbHandlers == {"dump", "rows", "insert"}
ConstHandlers ==
    {"hello", "hola", "void", "boom", "method", "object", "report", "big", "cycle",
     "early"}
\* What a handler with no suspension returns or throws.
ConstResult(h) ==
    CASE h = "hello" -> [threw |-> FALSE, val |-> Str("Hello")]
      [] h = "hola" -> [threw |-> FALSE, val |-> Str("Hola")]
      [] h = "void" -> [threw |-> FALSE, val |-> Undefined]
      [] h = "method" -> [threw |-> FALSE, val |-> ProtoFn]
      [] h = "object" -> [threw |-> FALSE, val |-> Obj(1)]
      [] h = "report" -> [threw |-> FALSE, val |-> ErrorObj("late")]
      [] h = "big" -> [threw |-> FALSE, val |-> BigIntVal(1)]
      [] h = "cycle" -> [threw |-> FALSE, val |-> Circular]
      [] h = "early" -> [threw |-> TRUE, val |-> ErrorObj("after")]
      [] OTHER -> [threw |-> TRUE, val |-> ErrorObj("boom")]
\* What a handler has written to the response itself by the time it
\* returns or throws.
OwnAnswer(h) ==
    IF h = "early" THEN ResEnd(NoResponse, Str("Early")) ELSE NoResponse
\* The loopback calls a handler may make.
LoopTargets(h) ==
    IF h = "world" THEN {<<"/hello", "get">>}
    ELSE {<<"/world", m>> : m \in Methods}
            \cup {<<"/hello", "post">>, <<"/hello", "delete">>}

(* -------------------------------- state -------------------------------- *)
VARIABLES
    LOOPBACK,   \* the port LOOPBACK.fetch sends to; 0: the fetch it starts with
    pcApply,    \* where each apply() call is
    app,        \* each app's stack of layers (app.use, app[method])
    data,       \* cfg.data of each configuration
    reqs,       \* the requests received so far, in order of arrival
    crashed,    \* a failure left a wrapped handler unhandled
    defaulted,  \* history: the keys a req.data call has stored its default under
    ev,         \* history: the req.data step just taken, if the step was one
    db,         \* what sqlite(cfg.db) has done for each configuration
    top,        \* the last call made on LOOPBACK outside a request
    sql,        \* the last statement dump_table has issued
    hello       \* table Hello of the database of src/main.ts: the world of each row

vars == <<LOOPBACK, pcApply, app, data, reqs, crashed, defaulted, ev, db, top, sql,
          hello>>

\* A mutant of RouteLayers: every method of a path gets the path's first
\* handler.
RouteLayersFirst(entry) ==
    [i \in 1..Len(entry.methods) |->
        [kind |-> "route", path |-> entry.path, method |-> entry.methods[i].method,
         handler |-> entry.methods[1].handler]]

\* for (const _method in route) app[method](path, apply_route(cfg, route[method]!))
RouteLayers(entry) ==
    [i \in 1..Len(entry.methods) |->
        [kind |-> "route", path |-> entry.path, method |-> entry.methods[i].method,
         handler |-> entry.methods[i].handler]]

RECURSIVE AllRouteLayers(_)
\* for (const path in routes) ...
AllRouteLayers(routes) ==
    IF routes = << >> THEN << >>
    ELSE RouteLayers(Head(routes)) \o AllRouteLayers(Tail(routes))

Middleware(name) == [kind |-> name, path |-> "", method |-> "", handler |-> NoHandler]

\* The routing block of apply().
RoutingBlock(stack, s) ==
    stack \o << Middleware("morgan"), Middleware("bodyParser") >>
          \o AllRouteLayers(CfgRoutes(s))

\* p.toLowerCase(), for the paths of the model.
ToLowerCase(p) == IF p = "/HELLO" THEN "/hello" ELSE p
\* p without the one slash it may end with, for the paths of the model.
StripSlash(p) == IF p = "/hello/" THEN "/hello" ELSE p

\* The router's test of a request path against the path a layer was
\* registered with, a plain text: letter case does not count, nor does
\* one trailing slash.
PathMatches(declared, path) ==
    ToLowerCase(StripSlash(declared)) = ToLowerCase(StripSlash(path))

\* The router's test of a request method against the method a layer was
\* registered with, by app[method]: the same method, or a HEAD request
\* on a layer registered with app.get.
MethodMatches(declared, method) ==
    declared = method \/ (method = "head" /\ declared = "get")

\* The place in the stack of the route layer the app runs for a request:
\* the first one whose path and method match; 0 when there is none.
Matched(stack, path, method) ==
    LET hit == {i \in 1..Len(stack) : /\ stack[i].kind = "route"
                                      /\ PathMatches(stack[i].path, path)
                                      /\ MethodMatches(stack[i].method, method)}
    IN IF hit = {} THEN 0 ELSE CHOOSE i \in hit : \A j \in hit : i <= j

\* The handler of that layer.
Dispatch(stack, path, method) ==
    IF Matched(stack, path, method) = 0 THEN NoHandler
    ELSE stack[Matched(stack, path, method)].handler

(* ---------------------------- augmentation ----------------------------- *)
\* The members of LOOPBACK.
LoopbackMembers == {"fetch", "get", "post", "delete", "patch", "put"}

\* A mutant of loopback: only fetch, get and post are copied.
loopback_get_post(members) == members \cup {"fetch", "get", "post"}

\* loopback(req): Object.assign(req, LOOPBACK)
loopback(members) == members \cup LoopbackMembers

\* What a layer ahead of the route layer puts on the request: the sqlite
\* middleware its db handle, the body parser the decoded body.
LayerAdds(layer) ==
    IF layer.kind = "sqlite" THEN {"db"}
    ELSE IF layer.kind = "bodyParser" THEN {"body"}
    ELSE {}

\* The members the request has when the route layer at place i calls
\* route(req, res): those of the layers ahead of it, then req.data =
\* cfg.data_fn, then loopback(req).
Augmented(stack, i) ==
    loopback(UNION {LayerAdds(stack[j]) : j \in 1..(i - 1)} \cup {"data"})

(* ------------------------------ requests ------------------------------- *)
\* User agents of client requests; "" is a request without the header.
ClientAgents == {"", "curl"}
\* What clients ask for.
ClientTargets ==
    {<<"/hello", "get">>, <<"/hello", "post">>, <<"/hello", "delete">>,
     <<"/world", "get">>, <<"/world", "post">>}
\* The clients of the counter.
StoreTargets == {<<"/data", "get">>}
\* cfg.data as configured: omitted, or holding a counter already.
CfgData == {EmptyStore, [k \in {"k"} |-> Num(0)]}

\* No dump_table call made yet.
NoSql == [name |-> "", limit |-> Undefined, offset |-> Undefined, text |-> ""]
NoPend == [key |-> "", old |-> Undefined, ok |-> TRUE, val |-> Undefined]
NoCall == [port |-> 0, path |-> "", method |-> "", ua |-> "", child |-> 0]
\* A req.data step: the call (op "call") or the settling of its promise
\* (op "settle") of request req, the arguments, the store before the step
\* (pre), the value under the key when the call was made (old), what the
\* caller got (kind, ret), which assignment wrote the store (wrote), and
\* whether no call had stored a default under the key before (first).
NoEvent == [op |-> "none", req |-> 0, svc |-> 0, key |-> "", def |-> Undefined,
            closure |-> NoClosure, pre |-> EmptyStore, old |-> Undefined,
            kind |-> "", ret |-> Undefined, wrote |-> "none", first |-> TRUE]

Upper(m) ==
    CASE m = "get" -> "GET" [] m = "post" -> "POST" [] m = "put" -> "PUT"
      [] m = "patch" -> "PATCH" [] m = "head" -> "HEAD" [] OTHER -> "DELETE"
\* The response as it leaves the server: the answer to a HEAD request
\* goes without its body.
Wire(method, res) == IF method = "head" THEN [res EXCEPT !.body = ""] ELSE res
\* What the server answers when no layer takes the request.
NotFound(path, method) ==
    Wire(method, [sent |-> TRUE, status |-> 404, ctype |-> "text/html",
                  body |-> "Cannot " \o Upper(method) \o " " \o path])

\* The request as the app dispatches it.  With a route layer for it, the
\* wrapped handler starts: req.data = cfg.data_fn; loopback(req) copies
\* LOOPBACK's members, fetch with the port it sends to, onto the request;
\* then route(req, res) is called.  A handler with no suspension returns
\* in the same turn of the event loop, and the wrapper answers.
Arrive(s, path, method, ua, from, world) ==
    LET h == Dispatch(app[s], path, method)
        now == h \in ConstHandlers
        done == apply_route(OwnAnswer(h), ConstResult(h).threw, ConstResult(h).val)
    IN
    [svc |-> s, path |-> path, method |-> method, ua |-> ua, from |-> from,
     world |-> world, stmt |-> NoSql,
     handler |-> h,
     invoked |-> IF h = NoHandler THEN 0 ELSE 1,
     aug |-> IF h = NoHandler THEN {}
             ELSE Augmented(app[s], Matched(app[s], path, method)),
     db |-> IF h # NoHandler
               /\ "db" \in Augmented(app[s], Matched(app[s], path, method))
            THEN s ELSE 0,
     fetchPort |-> IF h = NoHandler THEN 0 ELSE LOOPBACK,
     pc |-> IF h = NoHandler \/ now THEN "done" ELSE "running",
     ret |-> IF now THEN ConstResult(h).val ELSE Undefined,
     threw |-> now /\ ConstResult(h).threw,
     escaped |-> now /\ done.escaped,
     pend |-> NoPend, out |-> NoCall, lost |-> FALSE,
     res |-> IF h = NoHandler THEN NotFound(path, method)
             ELSE IF now THEN Wire(method, done.res) ELSE NoResponse]

\* The service listening on a port, if any.
Listener(port) == {s \in Services : pcApply[s] = "listening" /\ PortOf(s) = port}
\* The service whose app.listen(port) has bound the port, if any: from
\* then on connections to the port are taken, and their requests are
\* served once the service listens.
Bound(port) ==
    {s \in Services : pcApply[s] \in {"bound", "listening"} /\ PortOf(s) = port}

\* A failure that left a wrapped handler is a rejected promise in the
\* hands of the server: a server that takes the promises of its handlers
\* deals with it and the process goes on, under one that does not nobody
\* handles it, which ends the process.
Escape(escaped) == {crashed, crashed \/ escaped}

\* "http://localhost:" + port + path
UrlOf(port, path) == "http://localhost:" \o ToString(port) \o path
\* No call made on the top-level LOOPBACK yet.
NoTop == [target |-> "", url |-> "", method |-> "", ua |-> "", applied |-> FALSE,
          pc |-> "none", child |-> 0, ok |-> FALSE, ret |-> Undefined]

(* ------------------------------- startup ------------------------------- *)
Init ==
    /\ LOOPBACK = 0
    /\ pcApply = [s \in Services |-> "new"]
    /\ app = [s \in Services |-> << >>]
    /\ data = [s \in Services |-> EmptyStore]
    /\ reqs = << >>
    /\ crashed = FALSE
    /\ defaulted = {}
    /\ ev = NoEvent
    /\ db = [s \in Services |-> "none"]
    /\ top = NoTop
    /\ sql = NoSql
    /\ hello = << >>

\* A mutant of Apply: the routing block runs ahead of the database block.
Apply_routes_first(s) ==
    /\ ~crashed
    /\ UNCHANGED <<db, top, sql, hello>>
    /\ pcApply[s] = "new"
    /\ LOOPBACK' = PortOf(s)
    /\ pcApply' = [pcApply EXCEPT ![s] = IF CfgDb(s) THEN "db" ELSE "bound"]
    /\ app' = [app EXCEPT ![s] = RoutingBlock(app[s], s)]
    /\ ev' = NoEvent
    /\ defaulted' = defaulted
    /\ UNCHANGED <<data, reqs, crashed>>

\* apply(app, cfg) up to its first suspension: the init block, and, with
\* no database configured, the routing block and app.listen.
Apply(s) ==
    /\ ~crashed
    /\ UNCHANGED <<db, top, sql, hello>>
    /\ pcApply[s] = "new"
    /\ LOOPBACK' = PortOf(s)
    /\ IF CfgDb(s)
       THEN /\ pcApply' = [pcApply EXCEPT ![s] = "db"]
            /\ app' = app
       ELSE /\ pcApply' = [pcApply EXCEPT ![s] = "bound"]
            /\ app' = [app EXCEPT ![s] = RoutingBlock(app[s], s)]
    /\ ev' = NoEvent
    /\ defaulted' = defaulted
    /\ UNCHANGED <<data, reqs, crashed>>

\* sqlite(cfg.db): open() has given the database.  With migrations
\* configured db.migrate() is awaited next; without, sqlite() returns the
\* middleware: app.use(it), then the routing block and app.listen.
DbOpened(s) ==
    /\ ~crashed
    /\ pcApply[s] = "db"
    /\ db' = [db EXCEPT ![s] = "open"]
    /\ IF CfgMigrations(s)
       THEN /\ pcApply' = [pcApply EXCEPT ![s] = "migrate"]
            /\ app' = app
       ELSE /\ pcApply' = [pcApply EXCEPT ![s] = "bound"]
            /\ app' = [app EXCEPT
                         ![s] = RoutingBlock(app[s] \o << Middleware("sqlite") >>, s)]
    /\ ev' = NoEvent
    /\ defaulted' = defaulted
    /\ UNCHANGED <<LOOPBACK, data, reqs, crashed, top, sql, hello>>

\* db.migrate() has run the migrations: sqlite() returns the middleware:
\* app.use(it), then the routing block and app.listen.
Migrated(s) ==
    /\ ~crashed
    /\ pcApply[s] = "migrate"
    /\ db' = [db EXCEPT ![s] = "migrated"]
    /\ pcApply' = [pcApply EXCEPT ![s] = "bound"]
    /\ app' = [app EXCEPT ![s] = RoutingBlock(app[s] \o << Middleware("sqlite") >>, s)]
    /\ ev' = NoEvent
    /\ defaulted' = defaulted
    /\ UNCHANGED <<LOOPBACK, data, reqs, crashed, top, sql, hello>>

\* A mutant of DbFailed: the failure is swallowed and apply() goes on
\* without the database.
DbFailed_goes_on(s) ==
    /\ ~crashed
    /\ pcApply[s] \in {"db", "migrate"}
    /\ db' = [db EXCEPT ![s] = "failed"]
    /\ pcApply' = [pcApply EXCEPT ![s] = "bound"]
    /\ app' = [app EXCEPT ![s] = RoutingBlock(app[s], s)]
    /\ ev' = NoEvent
    /\ defaulted' = defaulted
    /\ UNCHANGED <<LOOPBACK, data, reqs, crashed, top, sql, hello>>

\* open() or db.migrate() fails: sqlite() rejects, and apply() with it.
\* src/main.ts gives the promise of apply() no handler (.then()), so there
\* the rejection ends the process.
DbFailed(s) ==
    /\ ~crashed
    /\ pcApply[s] \in {"db", "migrate"}
    /\ db' = [db EXCEPT ![s] = "failed"]
    /\ pcApply' = [pcApply EXCEPT ![s] = "failed"]
    /\ crashed' = (crashed \/ s = MainService)
    /\ ev' = NoEvent
    /\ defaulted' = defaulted
    /\ UNCHANGED <<LOOPBACK, app, data, reqs, top, sql, hello>>

\* The callback of app.listen.
Listening(s) ==
    /\ ~crashed
    /\ pcApply[s] = "bound"
    /\ pcApply' = [pcApply EXCEPT ![s] = "listening"]
    /\ ev' = NoEvent
    /\ defaulted' = defaulted
    /\ UNCHANGED <<LOOPBACK, app, data, reqs, crashed, db, top, sql, hello>>

(* ------------------------------- serving ------------------------------- *)
\* A client's request reaches a listening service; world is what
\* bodyParser.json leaves as req.body?.world.
ClientRequest(s, t, ua, world) ==
    /\ ~crashed
    /\ pcApply[s] = "listening"
    /\ Len(reqs) < MaxReq
    /\ Cardinality({r \in 1..Len(reqs) : reqs[r].from = 0}) < MaxClient
    /\ reqs' = Append(reqs, Arrive(s, t[1], t[2], ua, 0, world))
    /\ crashed' \in Escape(Arrive(s, t[1], t[2], ua, 0, world).escaped)
    /\ ev' = NoEvent
    /\ defaulted' = defaulted
    /\ UNCHANGED <<LOOPBACK, pcApply, app, data, db, top, sql, hello>>

\* The wrapped handler after route(req, res) has returned v or thrown v.
Finish(r, threw, v) ==
    LET done == apply_route(reqs[r].res, threw, v) IN
    /\ reqs' = [reqs EXCEPT ![r].pc = "done", ![r].ret = v, ![r].threw = threw,
                            ![r].escaped = done.escaped, ![r].pend = NoPend,
                            ![r].res = Wire(reqs[r].method, done.res)]
    /\ crashed' \in Escape(done.escaped)

\* The handler calls req.data(key, def, closure).  A value is returned to
\* the wrapper in the same turn; a throw leaves the handler to the wrapper;
\* a promise is awaited.
DataCall(r, key, def, closure) ==
    LET s == reqs[r].svc
        got == data_fn(data[s], key, def, closure)
    IN
    /\ ~crashed
    /\ reqs[r].pc = "running"
    /\ reqs[r].handler \in DataHandlers
    /\ reqs[r].pend = NoPend
    /\ data' = [data EXCEPT ![s] = got.data]
    /\ ev' = [op |-> "call", req |-> r, svc |-> s, key |-> key, def |-> def,
              closure |-> closure, pre |-> data[s], old |-> Lookup(data[s], key),
              kind |-> got.kind, ret |-> got.ret, wrote |-> got.wrote,
              first |-> <<s, key>> \notin defaulted]
    /\ defaulted' = IF got.wrote = "default" THEN defaulted \cup {<<s, key>>}
                    ELSE defaulted
    /\ CASE got.kind = "value" ->
              Finish(r, FALSE, got.ret)
         [] got.kind = "promise" ->
              /\ reqs' = [reqs EXCEPT ![r].pc = "await_data",
                            ![r].pend = [key |-> key, old |-> Lookup(data[s], key),
                                         ok |-> got.ok, val |-> got.ret]]
              /\ crashed' = crashed
         [] OTHER -> Finish(r, TRUE, got.ret)
    /\ UNCHANGED <<LOOPBACK, pcApply, app, db, top, sql, hello>>

\* The update's promise settles.  Fulfilled, the handler returns the
\* value; rejected, the await throws, to the wrapper.
DataSettle(r) ==
    LET s == reqs[r].svc
        p == reqs[r].pend
        got == data_settle(data[s], p.key, p.ok, p.val)
    IN
    /\ ~crashed
    /\ reqs[r].pc = "await_data"
    /\ data' = [data EXCEPT ![s] = got.data]
    /\ ev' = [op |-> "settle", req |-> r, svc |-> s, key |-> p.key, def |-> Undefined,
              closure |-> NoClosure, pre |-> data[s], old |-> p.old,
              kind |-> got.kind, ret |-> got.ret, wrote |-> got.wrote,
              first |-> <<s, p.key>> \notin defaulted]
    /\ defaulted' = defaulted
    /\ Finish(r, got.kind = "rejected", got.ret)
    /\ UNCHANGED <<LOOPBACK, pcApply, app, db, top, sql, hello>>

(* ------------------------------ loopback ------------------------------- *)
\* A mutant of LOOPBACK_fetch: the identity is always the fallback.
LOOPBACK_fetch_fixed_agent(port, agent, path, method) ==
    [port |-> port, path |-> path, method |-> method, ua |-> "Loopback", child |-> 0]

\* LOOPBACK.fetch as the init block of apply() sets it, called through
\* get/post/put/patch/delete with `this` a request whose user-agent header
\* is agent ("" when there is none): the request fetch() sends.
LOOPBACK_fetch(port, agent, path, method) ==
    [port |-> port, path |-> path, method |-> method,
     ua |-> IF agent # "" THEN agent ELSE "Loopback", child |-> 0]

\* The calls fetch() has sent whose request has not arrived yet.
InFlight ==
    Cardinality({r \in 1..Len(reqs) : reqs[r].pc = "fetching"})
        + (IF top.pc = "sent" THEN 1 ELSE 0)

\* The handler calls req[method](path) and awaits it: fetch() sends the
\* request and the handler is suspended.
LoopbackCall(r, t) ==
    /\ ~crashed
    /\ reqs[r].pc = "running"
    /\ reqs[r].handler \in LoopHandlers
    /\ t \in LoopTargets(reqs[r].handler)
    /\ Len(reqs) + InFlight < MaxReq
    /\ reqs' = [reqs EXCEPT
                  ![r].pc = "fetching",
                  ![r].out = LOOPBACK_fetch(reqs[r].fetchPort, reqs[r].ua, t[1], t[2])]
    /\ crashed' = crashed
    /\ ev' = NoEvent
    /\ defaulted' = defaulted
    /\ UNCHANGED <<LOOPBACK, pcApply, app, data, db, top, sql, hello>>

\* In a later turn the request of a loopback call reaches the service
\* that listens on its port, which dispatches it; with the port bound by
\* nobody the connection is refused, the call fails and the await throws.
LoopbackArrive(r) ==
    LET call == reqs[r].out
        to == Listener(call.port)
    IN
    /\ ~crashed
    /\ reqs[r].pc = "fetching"
    /\ to # {} \/ Bound(call.port) = {}
    /\ IF to = {}
       THEN LET done == apply_route(reqs[r].res, TRUE, TypeErrorObj("fetch failed")) IN
            /\ reqs' = [reqs EXCEPT ![r].pc = "done", ![r].threw = TRUE,
                                    ![r].ret = TypeErrorObj("fetch failed"),
                                    ![r].escaped = done.escaped,
                                    ![r].lost = TRUE,
                                    ![r].res = Wire(reqs[r].method, done.res)]
            /\ crashed' \in Escape(done.escaped)
       ELSE /\ reqs' = Append([reqs EXCEPT ![r].pc = "await_loop",
                                           ![r].out = [call EXCEPT !.child = Len(reqs) + 1]],
                              Arrive(CHOOSE s \in to : TRUE, call.path, call.method,
                                     call.ua, r, Undefined))
            /\ crashed' \in Escape(Arrive(CHOOSE s \in to : TRUE, call.path,
                                           call.method, call.ua, r, Undefined).escaped)
    /\ ev' = NoEvent
    /\ defaulted' = defaulted
    /\ UNCHANGED <<LOOPBACK, pcApply, app, data, db, top, sql, hello>>

\* What the handler returns once the loopback call has given it v.
LoopResult(h, v) == IF h = "world" THEN Str(ToStr(v) \o " world!") ELSE v

\* The wrapped handler of request c has returned and has answered
\* nothing: no answer will come.
Unanswered(c) == reqs[c].pc = "done" /\ ~reqs[c].res.sent

\* Request c was answered only when fetch() had given up the call its
\* handler awaited: by then the call that brought c, sent before that
\* one, has run out of time as well, and the answer is too late for it.
Late(c) == reqs[c].lost /\ reqs[c].out.child # 0

RECURSIVE Stuck(_)
\* Request c gets no answer in time for the call that brought it: its
\* handler has returned without answering, or awaits a loopback call
\* that itself gets no answer in time, or has answered too late.
Stuck(c) ==
    \/ Unanswered(c)
    \/ reqs[c].pc = "await_loop" /\ Stuck(reqs[c].out.child)
    \/ Late(c)

\* The nested request has been answered in time: handle_body decodes the
\* answer and the handler returns.
LoopbackReturn(r) ==
    /\ ~crashed
    /\ reqs[r].pc = "await_loop"
    /\ reqs[reqs[r].out.child].res.sent
    /\ ~Late(reqs[r].out.child)
    /\ LET got == handle_body(reqs[reqs[r].out.child].res) IN
       IF got.ok THEN Finish(r, FALSE, LoopResult(reqs[r].handler, got.val))
       ELSE Finish(r, TRUE, got.val)
    /\ ev' = NoEvent
    /\ defaulted' = defaulted
    /\ UNCHANGED <<LOOPBACK, pcApply, app, data, db, top, sql, hello>>

\* fetch() gives up the loopback call of request r: its headers timeout
\* (300 s after the request was sent) passes with no answer, fetch()
\* rejects and the await of the handler throws.  The handlers that
\* answer do so at once, so the calls given up are those whose request
\* is stuck.  The calls of a chain run out of time in one turn of the
\* timers and are given up in either order.
LoopbackTimeout(r) ==
    /\ ~crashed
    /\ reqs[r].pc = "await_loop"
    /\ Stuck(reqs[r].out.child)
    /\ LET done == apply_route(reqs[r].res, TRUE, TypeErrorObj("fetch failed")) IN
       /\ reqs' = [reqs EXCEPT ![r].pc = "done", ![r].threw = TRUE,
                               ![r].ret = TypeErrorObj("fetch failed"),
                               ![r].escaped = done.escaped,
                               ![r].lost = TRUE,
                               ![r].res = Wire(reqs[r].method, done.res)]
       /\ crashed' \in Escape(done.escaped)
    /\ ev' = NoEvent
    /\ defaulted' = defaulted
    /\ UNCHANGED <<LOOPBACK, pcApply, app, data, db, top, sql, hello>>

\* The paths and URLs the process passes to the top-level LOOPBACK, and
\* the methods it calls.
TopTargets == {"/hello", UrlOf(DefaultPort, "/hello")}
TopMethods == {"get", "post"}
\* The service and path a URL reaches, if any.
Reach(url) ==
    {x \in Services \X {"/hello", "/world"} :
        pcApply[x[1]] = "listening" /\ UrlOf(PortOf(x[1]), x[2]) = url}

\* A mutant of LOOPBACK_top: the init block of apply() leaves fetch as it
\* was.
LOOPBACK_top_direct(lb, target, method) ==
    [url |-> target, method |-> method, ua |-> ""]

\* LOOPBACK[method](target) called on the exported object, outside any
\* request: the request its fetch has fetch() send.  Before apply() fetch
\* is (path, init) => fetch(path, init); after, the fetch of the init
\* block, called with `this` the LOOPBACK object, which has no headers.
LOOPBACK_top(lb, target, method) ==
    IF lb = 0
    THEN [url |-> target, method |-> method, ua |-> ""]
    ELSE [url |-> UrlOf(LOOPBACK_fetch(lb, "", target, method).port,
                        LOOPBACK_fetch(lb, "", target, method).path),
          method |-> LOOPBACK_fetch(lb, "", target, method).method,
          ua |-> LOOPBACK_fetch(lb, "", target, method).ua]

\* The URLs fetch() can send to; any other text is no URL.
AbsoluteUrls == {UrlOf(PortOf(s), path) : s \in Services, path \in {"/hello", "/world"}}

\* The process calls LOOPBACK[method](target) outside a request and awaits
\* it.  fetch() rejects a text that is no URL; else it sends the request.
TopLevelCall(target, method) ==
    LET call == LOOPBACK_top(LOOPBACK, target, method) IN
    /\ ~crashed
    /\ top.pc \in {"none", "done"}
    /\ Len(reqs) + InFlight < MaxReq
    /\ Cardinality({r \in 1..Len(reqs) : reqs[r].from = 0}) < MaxClient
    /\ top' = [target |-> target, url |-> call.url, method |-> call.method,
               ua |-> call.ua, applied |-> LOOPBACK # 0,
               pc |-> IF call.url \in AbsoluteUrls THEN "sent" ELSE "done",
               child |-> 0, ok |-> FALSE,
               ret |-> IF call.url \in AbsoluteUrls THEN Undefined
                       ELSE TypeErrorObj("Failed to parse URL from " \o call.url)]
    /\ ev' = NoEvent
    /\ defaulted' = defaulted
    /\ UNCHANGED <<LOOPBACK, pcApply, app, data, reqs, crashed, db, sql, hello>>

\* In a later turn the request of the top-level call reaches the service
\* that listens at its URL, which dispatches it: the request carries the
\* agent set on it, or the runtime's own.  With the port bound by nobody
\* the connection is refused and the call fails.
TopArrive ==
    LET to == Reach(top.url) IN
    /\ ~crashed
    /\ top.pc = "sent"
    /\ to # {} \/ ~\E s \in Services, path \in {"/hello", "/world"} :
                      /\ pcApply[s] = "bound"
                      /\ UrlOf(PortOf(s), path) = top.url
    /\ IF to = {}
       THEN /\ top' = [top EXCEPT !.pc = "done", !.ok = FALSE,
                                  !.ret = TypeErrorObj("fetch failed")]
            /\ UNCHANGED <<reqs, crashed>>
       ELSE LET hit == CHOOSE x \in to : TRUE
                new == Arrive(hit[1], hit[2], top.method,
                              IF top.ua = "" THEN "node" ELSE top.ua, 0, Undefined)
            IN /\ top' = [top EXCEPT !.pc = "wait", !.child = Len(reqs) + 1]
               /\ reqs' = Append(reqs, new)
               /\ crashed' \in Escape(new.escaped)
    /\ ev' = NoEvent
    /\ defaulted' = defaulted
    /\ UNCHANGED <<LOOPBACK, pcApply, app, data, db, sql, hello>>

\* The request of the top-level call has been answered: handle_body
\* decodes the answer and the call settles.
TopReturn ==
    /\ ~crashed
    /\ top.pc = "wait"
    /\ reqs[top.child].res.sent
    /\ ~Late(top.child)
    /\ top' = [top EXCEPT !.pc = "done",
                          !.ok = handle_body(reqs[top.child].res).ok,
                          !.ret = handle_body(reqs[top.child].res).val]
    /\ ev' = NoEvent
    /\ defaulted' = defaulted
    /\ UNCHANGED <<LOOPBACK, pcApply, app, data, reqs, crashed, db, sql, hello>>

\* No answer comes to the request of the top-level call: fetch() gives
\* up after its headers timeout and rejects the call.
TopTimeout ==
    /\ ~crashed
    /\ top.pc = "wait"
    /\ Stuck(top.child)
    /\ top' = [top EXCEPT !.pc = "done", !.ok = FALSE,
                          !.ret = TypeErrorObj("fetch failed")]
    /\ ev' = NoEvent
    /\ defaulted' = defaulted
    /\ UNCHANGED <<LOOPBACK, pcApply, app, data, reqs, crashed, db, sql, hello>>

(* ------------------------------ dump_table ----------------------------- *)
\* The arguments handlers pass to dump_table; Undefined is an omitted one.
TableNames == {"T"}
LimitArgs == {Undefined, Num(0), Num(10)}
OffsetArgs == {Undefined, Num(0), Num(5)}

\* A mutant of dump_table: the LIMIT clause is put first.
dump_table_limit_first(name, limit, offset) ==
    LET from == "SELECT * FROM " \o name
        lim == IF Truthy(limit) THEN from \o " LIMIT " \o ToStr(limit) ELSE from
        off == IF Truthy(offset) THEN lim \o " OFFSET " \o ToStr(offset) ELSE lim
    IN [sql |-> off, ret |-> Undefined]

\* db.dump_table(name, limit, offset): the statement this.all() is given,
\* and what the promise it returns fulfils with once the rows are printed:
\* the result of console.table.
dump_table(name, limit, offset) ==
    LET from == "SELECT * FROM " \o name
        off == IF Truthy(offset) THEN from \o " OFFSET " \o ToStr(offset) ELSE from
        lim == IF Truthy(limit) THEN off \o " LIMIT " \o ToStr(limit) ELSE off
    IN [sql |-> lim, ret |-> Undefined]

\* What the member of an undefined req.db is read with.
NoDbHandle(member) ==
    TypeErrorObj("Cannot read properties of undefined (reading '" \o member \o "')")

\* req => req.db.dump_table(name, limit, offset): dump_table issues its
\* statement and the handler returns the promise, which the wrapper
\* awaits.  Without a db handle on the request the handler throws.
DumpCall(r, name, limit, offset) ==
    /\ ~crashed
    /\ reqs[r].pc = "running"
    /\ reqs[r].handler = "dump"
    /\ IF "db" \in reqs[r].aug
       THEN /\ sql' = [name |-> name, limit |-> limit, offset |-> offset,
                       text |-> dump_table(name, limit, offset).sql]
            /\ reqs' = [reqs EXCEPT
                          ![r].pc = "await_db",
                          ![r].stmt = [name |-> name, limit |-> limit, offset |-> offset,
                                       text |-> dump_table(name, limit, offset).sql],
                          ![r].pend = [NoPend EXCEPT
                                          !.val = dump_table(name, limit, offset).ret]]
            /\ crashed' = crashed
       ELSE /\ sql' = sql
            /\ Finish(r, TRUE, NoDbHandle("dump_table"))
    /\ ev' = NoEvent
    /\ defaulted' = defaulted
    /\ UNCHANGED <<LOOPBACK, pcApply, app, data, db, top, hello>>

\* The /db get handler of src/main.ts: req.db.dump_table("Hello").then(),
\* whose promise nobody awaits, and return req.db.all("SELECT * FROM
\* Hello"), which the wrapper awaits.
RowsCall(r) ==
    /\ ~crashed
    /\ reqs[r].pc = "running"
    /\ reqs[r].handler = "rows"
    /\ IF "db" \in reqs[r].aug
       THEN /\ sql' = [name |-> "Hello", limit |-> Undefined, offset |-> Undefined,
                       text |-> dump_table("Hello", Undefined, Undefined).sql]
            /\ reqs' = [reqs EXCEPT
                          ![r].pc = "await_db",
                          ![r].stmt = [name |-> "Hello", limit |-> Undefined,
                                       offset |-> Undefined,
                                       text |-> dump_table("Hello", Undefined,
                                                           Undefined).sql]]
            /\ crashed' = crashed
       ELSE /\ sql' = sql
            /\ Finish(r, TRUE, NoDbHandle("dump_table"))
    /\ ev' = NoEvent
    /\ defaulted' = defaulted
    /\ UNCHANGED <<LOOPBACK, pcApply, app, data, db, top, hello>>

\* The /db post handler of src/main.ts: return req.db.run("INSERT INTO
\* Hello(world) VALUES (?) RETURNING ROWID", req.body?.world || "world");
\* the value bound is WorldOf(reqs[r].world).
InsertCall(r) ==
    /\ ~crashed
    /\ reqs[r].pc = "running"
    /\ reqs[r].handler = "insert"
    /\ IF "db" \in reqs[r].aug
       THEN /\ reqs' = [reqs EXCEPT ![r].pc = "await_db"]
            /\ crashed' = crashed
       ELSE Finish(r, TRUE, NoDbHandle("run"))
    /\ ev' = NoEvent
    /\ defaulted' = defaulted
    /\ UNCHANGED <<LOOPBACK, pcApply, app, data, db, top, sql, hello>>

\* The database answers the statement dump_table issued for request r:
\* the rows, which console.table prints and the promise drops (ok), or a
\* failure, which the wrapper answers.  The database takes OFFSET only
\* after LIMIT: a statement with the OFFSET clause of dump_table is
\* refused as it is read, table or no table; any other is refused when
\* the table is missing.
DumpAnswer(r, ok) ==
    /\ ~crashed
    /\ reqs[r].pc = "await_db"
    /\ reqs[r].handler = "dump"
    /\ ok => ~Truthy(reqs[r].stmt.offset)
    /\ IF ok THEN Finish(r, FALSE, reqs[r].pend.val)
       ELSE IF Truthy(reqs[r].stmt.offset)
       THEN Finish(r, TRUE, ErrorObj("SQLITE_ERROR: near \""
                                         \o ToStr(reqs[r].stmt.offset)
                                         \o "\": syntax error"))
       ELSE Finish(r, TRUE, ErrorObj("SQLITE_ERROR: no such table: "
                                         \o reqs[r].stmt.name))
    /\ ev' = NoEvent
    /\ defaulted' = defaulted
    /\ UNCHANGED <<LOOPBACK, pcApply, app, data, db, top, sql, hello>>

\* The changes run() reports for the insert of one row.  The statement
\* returns a row, and the driver reads the connection's counter when the
\* row is out, ahead of the counting of the insert itself: it reports
\* what the connection counted for the statement before, 1 after an
\* insert (of a row, or of the record of a migration applied at this
\* startup), 0 when this is the first insert of a run that found the
\* migrations applied.
Changes == {0, 1}

\* The database answers the statements of a /db handler of src/main.ts:
\* it has run them (ok) or refuses them (no such table).  The wrapper
\* gets what the promise the handler returned settles with.  When the
\* statements of the get handler fail, the promise of its dump_table call
\* is rejected with nobody handling it, which ends the process before the
\* wrapper's answer is out.
DbAnswer(r, ok, c) ==
    /\ ~crashed
    /\ reqs[r].pc = "await_db"
    /\ reqs[r].handler \in {"rows", "insert"}
    /\ IF reqs[r].handler = "rows"
       THEN /\ IF ok THEN Finish(r, FALSE, Rows(hello))
               ELSE /\ reqs' = [reqs EXCEPT
                                  ![r].pc = "done", ![r].threw = TRUE,
                                  ![r].ret = ErrorObj("SQLITE_ERROR: no such table: Hello")]
                    /\ crashed' = TRUE
            /\ hello' = hello
       ELSE IF ok
            THEN /\ c = 0 => hello = << >>
                 /\ hello' = Append(hello, WorldOf(reqs[r].world))
                 /\ Finish(r, FALSE, RunResult(Len(hello) + 1, c))
            ELSE /\ hello' = hello
                 /\ Finish(r, TRUE, ErrorObj("SQLITE_ERROR: no such table: Hello"))
    /\ ev' = NoEvent
    /\ defaulted' = defaulted
    /\ UNCHANGED <<LOOPBACK, pcApply, app, data, db, top, sql>>

(* ---------------------------- specification ---------------------------- *)
\* Routing and loopback: both test configurations are applied, clients
\* ask for any route of either and for the route of the second that dumps
\* a table with no database configured.
Next ==
    \/ \E s \in TestServices : Apply(s)
    \/ \E s \in TestServices : DbOpened(s)
    \/ \E s \in TestServices : Migrated(s)
    \/ \E s \in TestServices : DbFailed(s)
    \/ \E s \in TestServices : Listening(s)
    \/ \E s \in TestServices, t \in ClientTargets : ClientRequest(s, t, "curl", Undefined)
    \/ ClientRequest(2, <<"/db", "get">>, "curl", Undefined)
    \/ \E r \in 1..Len(reqs), name \in TableNames, limit \in LimitArgs,
          offset \in OffsetArgs : DumpCall(r, name, limit, offset)
    \/ \E r \in 1..Len(reqs), m \in Methods : LoopbackCall(r, <<"/hello", m>>)
    \/ \E r \in 1..Len(reqs), m \in Methods : LoopbackCall(r, <<"/world", m>>)
    \/ \E r \in 1..Len(reqs) : LoopbackArrive(r)
    \/ \E r \in 1..Len(reqs) : LoopbackReturn(r)
    \/ \E r \in 1..Len(reqs) : LoopbackTimeout(r)

Spec == Init /\ [][Next]_vars

\* The data store: clients of the counter of the first configuration,
\* whose cfg.data is any of CfgData.
InitStore ==
    /\ LOOPBACK = 0
    /\ pcApply = [s \in Services |-> "new"]
    /\ app = [s \in Services |-> << >>]
    /\ data \in [Services -> CfgData]
    /\ \A s \in Services \ {1} : data[s] = EmptyStore
    /\ reqs = << >>
    /\ crashed = FALSE
    /\ defaulted = {}
    /\ ev = NoEvent
    /\ db = [s \in Services |-> "none"]
    /\ top = NoTop
    /\ sql = NoSql
    /\ hello = << >>

NextStore ==
    \/ Apply(1)
    \/ DbOpened(1)
    \/ Migrated(1)
    \/ DbFailed(1)
    \/ Listening(1)
    \/ \E t \in StoreTargets : ClientRequest(1, t, "curl", Undefined)
    \/ \E r \in 1..Len(reqs), key \in Keys, def \in Defaults,
          closure \in Closures \cup {NoClosure} : DataCall(r, key, def, closure)
    \/ \E r \in 1..Len(reqs) : DataSettle(r)

SpecStore == InitStore /\ [][NextStore]_vars

\* Replies and the top-level client: the first configuration, clients of
\* the routes whose handlers return a value of each shape, and calls on
\* LOOPBACK outside a request.
ReplyTargets ==
    {<<"/hello", "get">>, <<"/hello", "put">>, <<"/hello", "patch">>,
     <<"/world", "put">>, <<"/world", "patch">>, <<"/world", "delete">>,
     <<"/data", "post">>}

NextClient ==
    \/ Apply(1)
    \/ DbOpened(1)
    \/ Migrated(1)
    \/ DbFailed(1)
    \/ Listening(1)
    \/ \E t \in ReplyTargets : ClientRequest(1, t, "curl", Undefined)
    \/ \E target \in TopTargets, m \in TopMethods : TopLevelCall(target, m)
    \/ TopArrive
    \/ TopReturn
    \/ TopTimeout

SpecClient == Init /\ [][NextClient]_vars

\* The database handle: the first configuration and clients of the route
\* whose handler dumps a table, with every choice of limit and offset.
NextDump ==
    \/ Apply(1)
    \/ DbOpened(1)
    \/ Migrated(1)
    \/ DbFailed(1)
    \/ Listening(1)
    \/ ClientRequest(1, <<"/db", "get">>, "curl", Undefined)
    \/ \E r \in 1..Len(reqs), name \in TableNames, limit \in LimitArgs,
          offset \in OffsetArgs : DumpCall(r, name, limit, offset)
    \/ \E r \in 1..Len(reqs), ok \in BOOLEAN : DumpAnswer(r, ok)

SpecDump == Init /\ [][NextDump]_vars

\* Dispatch: both test configurations, and clients that ask for /hello
\* as declared, in other letter case and with a trailing slash, and for a
\* path nobody declares, with methods declared, not declared, and HEAD.
RoutePaths == {"/hello", "/HELLO", "/hello/", "/nope"}
RouteMethods == {"get", "head", "post", "put"}

NextRoute ==
    \/ \E s \in TestServices : Apply(s)
    \/ \E s \in TestServices : DbOpened(s)
    \/ \E s \in TestServices : Migrated(s)
    \/ \E s \in TestServices : DbFailed(s)
    \/ \E s \in TestServices : Listening(s)
    \/ \E s \in TestServices, p \in RoutePaths, m \in RouteMethods :
          ClientRequest(s, <<p, m>>, "curl", Undefined)

SpecRoute == Init /\ [][NextRoute]_vars

\* The agent of loopback calls: the first configuration, clients with and without an agent, chains of loopback
\* calls, and calls on LOOPBACK outside a request.
AgentTargets == {<<"/hello", "get">>, <<"/world", "get">>, <<"/world", "post">>}

NextAgent ==
    \/ Apply(1)
    \/ DbOpened(1)
    \/ Migrated(1)
    \/ DbFailed(1)
    \/ Listening(1)
    \/ \E t \in AgentTargets, ua \in ClientAgents : ClientRequest(1, t, ua, Undefined)
    \/ \E r \in 1..Len(reqs), t \in AgentTargets : LoopbackCall(r, t)
    \/ \E r \in 1..Len(reqs) : LoopbackArrive(r)
    \/ \E r \in 1..Len(reqs) : LoopbackReturn(r)
    \/ \E target \in TopTargets : TopLevelCall(target, "get")
    \/ TopArrive
    \/ TopReturn

SpecAgent == Init /\ [][NextAgent]_vars

\* src/main.ts as it is: its configuration applied, and clients of its
\* routes and of one it does not declare.
MainTargets ==
    {<<"/hello", "get">>, <<"/hello", "post">>, <<"/world", "get">>,
     <<"/db", "get">>, <<"/db", "post">>}

NextMain ==
    \/ Apply(MainService)
    \/ DbOpened(MainService)
    \/ Migrated(MainService)
    \/ DbFailed(MainService)
    \/ Listening(MainService)
    \/ \E t \in MainTargets, ua \in ClientAgents, w \in Worlds :
          /\ t[2] = "post" \/ w = Undefined
          /\ ClientRequest(MainService, t, ua, w)
    \/ \E r \in 1..Len(reqs) : LoopbackCall(r, <<"/hello", "get">>)
    \/ \E r \in 1..Len(reqs) : LoopbackArrive(r)
    \/ \E r \in 1..Len(reqs) : LoopbackReturn(r)
    \/ \E r \in 1..Len(reqs) : RowsCall(r)
    \/ \E r \in 1..Len(reqs) : InsertCall(r)
    \/ \E r \in 1..Len(reqs), ok \in BOOLEAN, c \in Changes : DbAnswer(r, ok, c)

SpecMain == Init /\ [][NextMain]_vars

(* ============================== claims ================================= *)
\* The value req.data finds under the key of the step ev, before the step
\* and after it.
EvBefore == Lookup(ev.pre, ev.key)
EvAfter == Lookup(data[ev.svc], ev.key)

(* ------------------------------- C1 ------------------------------------ *)
\* C1 as stated: once a call has stored its default under a key (any
\* value, undefined too), no later call puts its default in the place of
\* the key's value: the value changes only through an update closure.
C1_DefaultStoredOnce ==
    (ev.op # "none" /\ ~ev.first /\ EvAfter # EvBefore) => ev.wrote = "update"

\* C1, amended: a call stores its default under a key exactly when the
\* value it finds under the key is undefined (the key is absent, or holds
\* undefined after an undefined default or an update that returned
\* undefined); a key that holds a defined value keeps it until an update
\* closure, synchronous or resolved, replaces it.
C1_DefaultStoredWhenUndefined ==
    ev.op # "none" =>
        /\ (ev.wrote = "default") <=> (ev.op = "call" /\ TypeOf(EvBefore) = "undefined")
        /\ (ev.wrote = "default" => data[ev.svc] = Put(ev.pre, ev.key, ev.def))
        /\ (TypeOf(EvBefore) # "undefined" /\ data[ev.svc] # ev.pre) =>
              /\ ev.wrote = "update"
              /\ \/ /\ ev.op = "call"
                    /\ ev.closure \in Closures
                    /\ data[ev.svc] = Put(ev.pre, ev.key, CallClosure(ev.closure, EvBefore).val)
                 \/ /\ ev.op = "settle"
                    /\ data[ev.svc] = Put(ev.pre, ev.key, ev.ret)

\* A default is stored under a key that had one stored before.
C1_Witness == ev.op = "call" /\ ev.wrote = "default" /\ ~ev.first /\ ev.def # Undefined

(* ------------------------------- C2 ------------------------------------ *)
\* C2: a request whose handler has returned undefined without failing has
\* been sent an (empty) response once the wrapped handler is done.
C2_UndefinedSendsEmpty ==
    \A r \in 1..Len(reqs) :
        (reqs[r].pc = "done" /\ reqs[r].handler # NoHandler /\ ~reqs[r].threw
            /\ reqs[r].ret = Undefined) => reqs[r].res.sent

(* ------------------------------- C3 ------------------------------------ *)
\* C3: a request whose handler threw or rejected is answered with status
\* 500 and a body that ends with the description of the failure; the
\* failure does not leave the wrapped handler, the process goes on, and
\* requests arriving later are served as ever.
C3_FailureIsAnswered ==
    \A r \in 1..Len(reqs) :
        reqs[r].threw =>
            /\ reqs[r].pc = "done"
            /\ ~reqs[r].escaped
            /\ ~crashed
            /\ reqs[r].res.sent
            /\ reqs[r].res.status = 500
            /\ reqs[r].res.body = "Error! " \o ToStr(reqs[r].ret)
            /\ \A q \in 1..Len(reqs) :
                  (q > r /\ reqs[q].handler = "hello") =>
                      reqs[q].res = [sent |-> TRUE, status |-> 200, ctype |-> "",
                                     body |-> "Hello"]

(* ------------------------------- C4 ------------------------------------ *)
\* The request of the step ev was answered with the failure.
EvCallerFailed ==
    /\ reqs[ev.req].threw
    /\ reqs[ev.req].res.status = 500
    /\ reqs[ev.req].res.body = "Error! Error: bad"

\* C4 as stated: when the update of a key the store holds fails, the
\* value under the key is what it was before the call, and the caller
\* observes a failure.
C4_FailedUpdateKeepsOldValue ==
    (ev.op # "none" /\ ev.kind \in {"throw", "rejected"} /\ ev.old # ProtoFn) =>
        /\ EvAfter = ev.old
        /\ EvCallerFailed

\* While a req.data call is pending, the value under its key changes only
\* by a write of another call or by its own resolution.
OnlyWritesChangePending ==
    \A r \in 1..Len(reqs) :
        (/\ reqs[r].pc = "await_data"
         /\ Lookup(data'[reqs[r].svc], reqs[r].pend.key)
               # Lookup(data[reqs[r].svc], reqs[r].pend.key)) =>
            /\ ev'.op # "none"
            /\ ev'.wrote # "none"
            /\ ev'.svc = reqs[r].svc /\ ev'.key = reqs[r].pend.key
            /\ (ev'.req = r => ev'.op = "settle")

\* C4, amended: a failing update writes nothing: neither the call nor the
\* rejection changes the store, so the value under the key is what it was
\* before the call unless another data() call wrote the key while the
\* update was pending; and the caller observes a failure.
C4_FailedUpdateWritesNothing ==
    /\ [](/\ (ev.op # "none" /\ ev.kind \in {"throw", "rejected"}) =>
                /\ data[ev.svc] = ev.pre
                /\ ev.wrote = "none"
                /\ EvCallerFailed
          /\ (ev.op = "call" /\ ev.kind = "throw") => EvAfter = ev.old
          /\ (ev.op = "call" /\ ev.kind = "promise") => data[ev.svc] = ev.pre)
    /\ [][OnlyWritesChangePending]_vars

\* An asynchronous update is rejected after another call has written its
\* key.
C4_Witness ==
    /\ ev.op = "settle" /\ ev.kind = "rejected"
    /\ EvAfter # ev.old
    /\ reqs[ev.req].res.status = 500

(* ------------------------------- C5 ------------------------------------ *)
\* C5 as stated: while an asynchronous update of a key the store holds
\* is pending, the store holds the old value; at resolution the store is set to the new value and the
\* promise fulfils with the stored value.
C5_OldValueWhilePending ==
    /\ \A r \in 1..Len(reqs) :
          (reqs[r].pc = "await_data" /\ reqs[r].pend.old # ProtoFn) =>
              Lookup(data[reqs[r].svc], reqs[r].pend.key) = reqs[r].pend.old
    /\ (ev.op = "settle" /\ ev.kind = "fulfilled") =>
          /\ EvAfter = CallClosure("ainc", ev.old).val
          /\ ev.ret = EvAfter

\* C5, amended: the call with an asynchronous update leaves the store as
\* it is and writes it only at resolution, so a read in the pending period
\* returns the old value unless another data() call has written the key
\* meanwhile; at resolution the store is set to the new value, computed
\* from the value read at the call, and the promise fulfils with exactly
\* the value stored.
C5_PendingUpdateWritesAtResolution ==
    /\ [](/\ (ev.op = "call" /\ ev.kind = "promise") =>
                /\ data[ev.svc] = ev.pre
                /\ reqs[ev.req].pc = "await_data"
                /\ reqs[ev.req].pend.old = EvBefore
                /\ data_fn(data[ev.svc], ev.key, Undefined, NoClosure).ret = ev.old
          /\ (ev.op = "settle" /\ ev.kind = "fulfilled") =>
                /\ data[ev.svc] = Put(ev.pre, ev.key, CallClosure("ainc", ev.old).val)
                /\ ev.ret = data[ev.svc][ev.key])
    /\ [][OnlyWritesChangePending]_vars

\* While one request's update is pending, another request reads the key
\* and gets the old value.
C5_Witness ==
    \E r \in 1..Len(reqs) :
        /\ reqs[r].pc = "await_data"
        /\ ev.op = "call" /\ ev.req # r /\ ev.closure = NoClosure
        /\ ev.key = reqs[r].pend.key
        /\ ev.ret = reqs[r].pend.old
        /\ reqs[r].pend.val # reqs[r].pend.old

(* ------------------------------- C6 ------------------------------------ *)
\* C6: on a key holding n, data(k, d1, f) with a synchronous f returns
\* f(n) whatever d1 is and stores f(n); a read data(k) then returns f(n),
\* and a read of any request returns the value the shared store holds.
C6_SyncUpdateReturnsAndStores ==
    /\ (/\ ev.op = "call"
        /\ TypeOf(EvBefore) # "undefined"
        /\ ev.closure \in {"inc", "clear"}) =>
          /\ ev.kind = "value"
          /\ ev.ret = CallClosure(ev.closure, EvBefore).val
          /\ data[ev.svc] = Put(ev.pre, ev.key, CallClosure(ev.closure, EvBefore).val)
          /\ data_fn(data[ev.svc], ev.key, Undefined, NoClosure).ret
                = CallClosure(ev.closure, EvBefore).val
    /\ (/\ ev.op = "call"
        /\ TypeOf(EvBefore) # "undefined"
        /\ ev.closure = NoClosure) =>
          /\ ev.kind = "value"
          /\ ev.ret = EvBefore
          /\ data[ev.svc] = ev.pre

\* A later request increments a number an earlier request stored, with a
\* default that differs from the result.
C6_Witness ==
    /\ ev.op = "call" /\ ev.closure = "inc" /\ ev.req > 1
    /\ EvBefore.t = "number"
    /\ <<ev.svc, ev.key>> \in defaulted
    /\ ev.def # Undefined /\ ev.def # ev.ret
    /\ ev.ret = Num((EvBefore.n + 1) % (MaxVal + 1))

(* ------------------------------- C7 ------------------------------------ *)
\* C7: for a key not yet in the store, the first data(k, d), d given, with or
\* without an update closure, stores d and returns d without applying the
\* update, and data(k) then returns d again.
C7_FirstCallStoresDefault ==
    (ev.op = "call" /\ ev.key \notin DOMAIN ev.pre /\ ev.def # Undefined) =>
        /\ ev.kind = "value"
        /\ ev.ret = ev.def
        /\ ev.wrote = "default"
        /\ data[ev.svc] = Put(ev.pre, ev.key, ev.def)
        /\ data_fn(data[ev.svc], ev.key, Undefined, NoClosure).ret = ev.def

(* ------------------------------- C8 ------------------------------------ *)
\* The handlers the route map of the service of request r declares for
\* exactly the path and the method of r.
DeclaredFor(r) ==
    LET routes == CfgRoutes(reqs[r].svc) IN
    UNION {{routes[i].methods[j].handler :
              j \in {j \in 1..Len(routes[i].methods) :
                        routes[i].methods[j].method = reqs[r].method}} :
           i \in {i \in 1..Len(routes) : routes[i].path = reqs[r].path}}

\* C8 as stated: a request to a (path, method) the route map declares runs
\* the handler declared for exactly that pair, once, and no other; a
\* request to a pair not declared runs no handler and gets the server's
\* default answer.
C8_DeclaredHandlerOnly ==
    \A r \in 1..Len(reqs) :
        IF DeclaredFor(r) # {}
        THEN /\ DeclaredFor(r) = {reqs[r].handler}
             /\ reqs[r].invoked = 1
        ELSE /\ reqs[r].handler = NoHandler
             /\ reqs[r].invoked = 0
             /\ reqs[r].res = NotFound(reqs[r].path, reqs[r].method)

\* The declared pairs the server matches request r to, as places <<i, j>>
\* in the route map: path equal but for letter case and one trailing
\* slash, method equal, or get for a HEAD request.
MatchingPairs(r) ==
    LET routes == CfgRoutes(reqs[r].svc) IN
    {x \in (1..Len(routes)) \X (1..5) :
        /\ x[2] <= Len(routes[x[1]].methods)
        /\ PathMatches(routes[x[1]].path, reqs[r].path)
        /\ MethodMatches(routes[x[1]].methods[x[2]].method, reqs[r].method)}

\* The first of them in the order of the route map.
FirstPair(r) ==
    CHOOSE x \in MatchingPairs(r) :
        \A y \in MatchingPairs(r) : x[1] < y[1] \/ (x[1] = y[1] /\ x[2] <= y[2])

\* C8, amended: a request runs the handler of the first declared pair, in
\* the order of the route map, that the server matches it to, once, and
\* no other; a request the server matches to no declared pair runs no
\* handler and gets the server's default answer.
C8_FirstMatchingPair ==
    \A r \in 1..Len(reqs) :
        IF MatchingPairs(r) # {}
        THEN /\ reqs[r].handler =
                    CfgRoutes(reqs[r].svc)[FirstPair(r)[1]].methods[FirstPair(r)[2]].handler
             /\ reqs[r].invoked = 1
        ELSE /\ reqs[r].handler = NoHandler
             /\ reqs[r].invoked = 0
             /\ reqs[r].res = NotFound(reqs[r].path, reqs[r].method)

\* HEAD /hello ran the handler declared for GET /hello and was answered
\* without a body, and GET /HELLO ran the handler of the pair declared
\* first that matches, the one of /hello, not the one declared for /HELLO.
C8_Witness ==
    \E r, q \in 1..Len(reqs) :
        /\ reqs[r].svc = 1 /\ reqs[r].path = "/hello" /\ reqs[r].method = "head"
        /\ reqs[r].handler = "hello" /\ reqs[r].invoked = 1
        /\ reqs[r].res = [sent |-> TRUE, status |-> 200, ctype |-> "", body |-> ""]
        /\ reqs[q].svc = 2 /\ reqs[q].path = "/HELLO" /\ reqs[q].method = "get"
        /\ reqs[q].handler = "hola" /\ reqs[q].res.body = "Hola"

(* ------------------------------- C9 ------------------------------------ *)
\* C9: every loopback call a handler makes is sent to the port of the
\* service that handles the request.
C9_LoopbackToOwnPort ==
    \A r \in 1..Len(reqs) :
        reqs[r].out # NoCall => reqs[r].out.port = PortOf(reqs[r].svc)

(* ------------------------------- C10 ----------------------------------- *)
RECURSIVE Origin(_)
\* The client request a request descends from through loopback calls.
Origin(r) == IF reqs[r].from = 0 THEN r ELSE Origin(reqs[r].from)

\* A loopback call of a handler carries the user agent of the request
\* that makes it, "Loopback" when that request has none, so every request
\* of a chain of loopback calls sees the agent of the client request at
\* its origin.
ChainCarriesAgent ==
    \A r \in 1..Len(reqs) :
        /\ reqs[r].out # NoCall =>
              reqs[r].out.ua = IF reqs[r].ua # "" THEN reqs[r].ua ELSE "Loopback"
        /\ reqs[r].from # 0 =>
              /\ reqs[r].ua = reqs[reqs[r].from].out.ua
              /\ reqs[r].ua = IF reqs[Origin(r)].ua # "" THEN reqs[Origin(r)].ua
                              ELSE "Loopback"

\* C10 as stated: a loopback call of a handler carries the user agent of
\* the request being handled through a chain of any depth, "Loopback"
\* when that request has none; and the request of a call made with no
\* originating request carries "Loopback".
C10_AgentForwarded ==
    /\ ChainCarriesAgent
    /\ top.child # 0 => reqs[top.child].ua = "Loopback"

\* C10, amended: as stated for the calls of handlers; the request of a
\* call made with no originating request carries "Loopback" when the
\* call was made after apply() has run, and the agent of the runtime,
\* not "Loopback", when it was made before.
C10_AgentForwardedOnceApplied ==
    /\ ChainCarriesAgent
    /\ top # NoTop => top.ua = IF top.applied THEN "Loopback" ELSE ""
    /\ top.child # 0 =>
          reqs[top.child].ua = IF top.applied THEN "Loopback" ELSE "node"

\* A chain two calls deep carries the client's agent.
C10_Witness ==
    \E r \in 1..Len(reqs) :
        /\ reqs[r].from # 0
        /\ reqs[reqs[r].from].from # 0
        /\ reqs[r].ua = "curl"
        /\ reqs[r].handler = "hello"
        /\ reqs[r].res.sent

(* ------------------------------- C11 ----------------------------------- *)
\* What the body of the answer to request c decodes to: the JSON value
\* when the answer says it is JSON, else the text.
Decoded(c) ==
    IF reqs[c].res.ctype = "application/json"
    THEN JSONparse(reqs[c].res.body)
    ELSE [ok |-> TRUE, val |-> Str(reqs[c].res.body)]

\* The transport of the loopback call of request r failed: the
\* connection was refused, or fetch() gave the call up with no answer.
TransportFailed(r) == reqs[r].lost

\* C11 as stated: a loopback call that was answered gives the caller the
\* decoded body whatever the status, and a loopback call fails only when
\* the transport failed.
C11_OnlyTransportFails ==
    \A r \in 1..Len(reqs) :
        (reqs[r].out # NoCall /\ reqs[r].pc = "done") =>
            IF TransportFailed(r)
            THEN reqs[r].threw
            ELSE /\ ~reqs[r].threw
                 /\ reqs[r].ret = LoopResult(reqs[r].handler, Decoded(reqs[r].out.child).val)

\* C11, amended: a loopback call that was answered gives the caller the
\* decoded body whatever the status (the error text of a route that
\* failed, as an ordinary value); the call fails only when the transport
\* failed or when the body of the answer cannot be decoded (an answer that
\* says it is JSON and whose body is not JSON text).
C11_StatusDoesNotFail ==
    \A r \in 1..Len(reqs) :
        (reqs[r].out # NoCall /\ reqs[r].pc = "done") =>
            IF TransportFailed(r)
            THEN /\ reqs[r].threw
                 /\ reqs[r].ret = TypeErrorObj("fetch failed")
            ELSE IF Decoded(reqs[r].out.child).ok
            THEN /\ ~reqs[r].threw
                 /\ reqs[r].ret = LoopResult(reqs[r].handler, Decoded(reqs[r].out.child).val)
            ELSE /\ reqs[r].threw
                 /\ reqs[r].ret.t = "syntaxerror"
                 /\ reqs[reqs[r].out.child].res.status = 200

\* A handler got the error text of a route that failed, as a value, and
\* answered with it.
C11_Witness ==
    \E r \in 1..Len(reqs) :
        /\ reqs[r].handler = "relay" /\ reqs[r].pc = "done" /\ ~reqs[r].threw
        /\ reqs[r].out.child # 0
        /\ reqs[reqs[r].out.child].threw
        /\ reqs[reqs[r].out.child].res.status = 500
        /\ reqs[reqs[r].out.child].handler = "boom"
        /\ reqs[r].ret = Str(reqs[reqs[r].out.child].res.body)
        /\ reqs[r].res.status = 200
        /\ reqs[r].res.body = "Error! Error: boom"

(* ------------------------------- C12 ----------------------------------- *)
\* C12: with /hello returning "Hello" and /world returning
\* (await get("/hello")) + " world!", a GET /world whose loopback call was
\* answered is answered "Hello world!", after the nested request was.
C12_WorldAnswersHelloWorld ==
    \A r \in 1..Len(reqs) :
        (/\ reqs[r].svc = 1 /\ reqs[r].handler = "world"
         /\ reqs[r].pc = "done" /\ reqs[r].out.child # 0) =>
            /\ reqs[reqs[r].out.child].res.sent
            /\ reqs[r].res = [sent |-> TRUE, status |-> 200, ctype |-> "",
                              body |-> "Hello world!"]

(* ------------------------------- C13 ----------------------------------- *)
\* C13 as stated: a string result is the body as it is, with no quotes
\* added; any other defined result is sent as JSON that decodes back to
\* an equal value.
C13_BodyDecodesToResult ==
    \A r \in 1..Len(reqs) :
        (/\ reqs[r].pc = "done" /\ reqs[r].handler # NoHandler /\ ~reqs[r].threw
         /\ TypeOf(reqs[r].ret) # "undefined") =>
            IF TypeOf(reqs[r].ret) = "string"
            THEN reqs[r].res = [sent |-> TRUE, status |-> 200, ctype |-> "",
                                body |-> reqs[r].ret.s]
            ELSE /\ reqs[r].res.sent
                 /\ reqs[r].res.ctype = "application/json"
                 /\ JSONparse(reqs[r].res.body) = [ok |-> TRUE, val |-> reqs[r].ret]

\* C13, amended: of a handler that leaves the response alone, for a
\* request other than HEAD: a string result is the body as it is, with no
\* quotes added; any other defined result goes to JSON.stringify.  With
\* the text it gives, the answer is a JSON response, whose body decodes
\* back to an equal value when the result is one JSON represents (a
\* number, a plain object of such); a function leaves the body empty and
\* an Error object is sent as {}, neither decoding to the result.  When
\* it throws (a BigInt, an object that holds itself) the answer is the
\* one of a failure: status 500 and "Error! " with the TypeError.
C13_ResultShapesBody ==
    \A r \in 1..Len(reqs) :
        (/\ reqs[r].pc = "done" /\ reqs[r].handler # NoHandler /\ ~reqs[r].threw
         /\ reqs[r].method # "head"
         /\ TypeOf(reqs[r].ret) # "undefined") =>
            IF TypeOf(reqs[r].ret) = "string"
            THEN reqs[r].res = [sent |-> TRUE, status |-> 200, ctype |-> "",
                                body |-> reqs[r].ret.s]
            ELSE IF reqs[r].ret.t \in {"bigint", "circular"}
            THEN /\ reqs[r].res.sent
                 /\ reqs[r].res.status = 500
                 /\ reqs[r].res.ctype # "application/json"
                 /\ reqs[r].res.body =
                        "Error! TypeError: "
                            \o (IF reqs[r].ret.t = "bigint"
                                THEN "Do not know how to serialize a BigInt"
                                ELSE "Converting circular structure to JSON\n"
                                     \o "    --> starting at object with constructor 'Object'\n"
                                     \o "    --- property 'self' closes the circle")
            ELSE /\ reqs[r].res.sent
                 /\ reqs[r].res.status = 200
                 /\ reqs[r].res.ctype = "application/json"
                 /\ reqs[r].ret \in JsonValues =>
                        JSONparse(reqs[r].res.body) = [ok |-> TRUE, val |-> reqs[r].ret]
                 /\ reqs[r].ret.t = "function" =>
                        (reqs[r].res.body = "" /\ ~JSONparse(reqs[r].res.body).ok)
                 /\ reqs[r].ret.t = "error" =>
                        (reqs[r].res.body = "{}"
                            /\ JSONparse(reqs[r].res.body).val = EmptyObj)

\* {a: 1} was sent as its JSON text, and 1n, which has none, was answered
\* as a failure is.
C13_Witness ==
    \E r, q \in 1..Len(reqs) :
        /\ reqs[r].handler = "object" /\ reqs[r].res.body = "{\"a\":1}"
        /\ reqs[r].res.status = 200
        /\ JSONparse(reqs[r].res.body).val = Obj(1)
        /\ reqs[q].handler = "big" /\ ~reqs[q].threw
        /\ reqs[q].res.status = 500
        /\ reqs[q].res.body = "Error! TypeError: Do not know how to serialize a BigInt"

(* ------------------------------- C14 ----------------------------------- *)
\* The places of the route layers in the stack of service s.
RoutePlaces(s) == {i \in 1..Len(app[s]) : app[s][i].kind = "route"}

\* C14: with a database configured, no route is registered before the
\* database is open and its migrations have run (the middleware that
\* attaches it comes ahead of every route); and a service that listens
\* has every (path, method) of its route map registered, with its
\* handler, and no other route.
C14_StartupOrder ==
    \A s \in Services :
        /\ (CfgDb(s) /\ RoutePlaces(s) # {}) =>
              /\ db[s] = IF CfgMigrations(s) THEN "migrated" ELSE "open"
              /\ \E j \in 1..Len(app[s]) :
                    /\ app[s][j].kind = "sqlite"
                    /\ \A i \in RoutePlaces(s) : j < i
        /\ pcApply[s] \in {"new", "db", "migrate", "failed"} => RoutePlaces(s) = {}
        /\ pcApply[s] = "listening" =>
              /\ \A i \in 1..Len(CfgRoutes(s)) :
                    \A j \in 1..Len(CfgRoutes(s)[i].methods) :
                        \E k \in RoutePlaces(s) :
                            /\ app[s][k].path = CfgRoutes(s)[i].path
                            /\ app[s][k].method = CfgRoutes(s)[i].methods[j].method
                            /\ app[s][k].handler = CfgRoutes(s)[i].methods[j].handler
              /\ \A k \in RoutePlaces(s) :
                    \E i \in 1..Len(CfgRoutes(s)) :
                        \E j \in 1..Len(CfgRoutes(s)[i].methods) :
                            /\ app[s][k].path = CfgRoutes(s)[i].path
                            /\ app[s][k].method = CfgRoutes(s)[i].methods[j].method
                            /\ app[s][k].handler = CfgRoutes(s)[i].methods[j].handler

\* The service with the database listens, migrations run, and has served
\* a request that carries the db handle.
C14_Witness ==
    /\ pcApply[1] = "listening" /\ db[1] = "migrated"
    /\ \E r \in 1..Len(reqs) : reqs[r].svc = 1 /\ reqs[r].db = 1

(* ------------------------------- C15 ----------------------------------- *)
\* C15: once opening the database or running its migrations has failed,
\* the service has no route, never listens and serves no request.
C15_FailedStartupNeverServes ==
    /\ [](\A s \in Services :
            db[s] = "failed" =>
                /\ pcApply[s] = "failed"
                /\ app[s] = << >>
                /\ \A r \in 1..Len(reqs) : reqs[r].svc # s)
    /\ [][\A s \in Services : pcApply[s] = "failed" => pcApply'[s] = "failed"]_vars

\* The database of the first service failed while the other service
\* listens and has served a request.
C15_Witness ==
    /\ db[1] = "failed" /\ pcApply[1] = "failed"
    /\ pcApply[2] = "listening"
    /\ \E r \in 1..Len(reqs) : reqs[r].svc = 2 /\ reqs[r].res.sent

(* ------------------------------- C16 ----------------------------------- *)
\* C16: once apply() has registered the routes, every middleware of
\* cfg.middleware is in the app, ahead of the routes.
C16_MiddlewareApplied ==
    \A s \in Services :
        pcApply[s] \in {"bound", "listening"} =>
            \A m \in 1..Len(CfgMiddleware(s)) :
                \E j \in 1..Len(app[s]) :
                    /\ app[s][j].kind = CfgMiddleware(s)[m]
                    /\ \A i \in RoutePlaces(s) : j < i

(* ------------------------------- C17 ----------------------------------- *)
\* C17: nothing locks a key.  The outcome of a pending update is computed
\* from the value read at its call, and its resolution stores that
\* outcome over whatever other calls have written meanwhile: after the
\* last resolution the key holds that update's result and the writes made
\* in between are lost.
C17_LastResolutionWins ==
    /\ \A r \in 1..Len(reqs) :
          (reqs[r].pc = "await_data" /\ reqs[r].pend.ok) =>
              reqs[r].pend.val = CallClosure("ainc", reqs[r].pend.old).val
    /\ (ev.op = "settle" /\ ev.kind = "fulfilled") =>
          /\ EvAfter = CallClosure("ainc", ev.old).val
          /\ reqs[ev.req].ret = EvAfter
          /\ (\A r \in 1..Len(reqs) : reqs[r].pc # "await_data") =>
                data[ev.svc][ev.key] = ev.ret

\* An update resolves last, after another call has written its key: the
\* key holds the result computed from the value read at the call, not the
\* update of the value written in between.
C17_Witness ==
    /\ ev.op = "settle" /\ ev.kind = "fulfilled"
    /\ ev.old.t = "number" /\ EvBefore.t = "number"
    /\ EvBefore # ev.old
    /\ \A r \in 1..Len(reqs) : reqs[r].pc = "done"
    /\ Len(reqs) > 1
    /\ EvAfter = Inc(ev.old)
    /\ EvAfter # Inc(EvBefore)

(* ------------------------------- C18 ----------------------------------- *)
\* C18: a request whose handler has been invoked had, at the invocation,
\* the data accessor, fetch and the five loopback methods, and the db
\* handle exactly when its configuration has a database, the one handle
\* of that configuration.
C18_FullyAugmented ==
    \A r \in 1..Len(reqs) :
        reqs[r].invoked = 1 =>
            /\ {"data", "fetch", "get", "post", "put", "patch", "delete"}
                  \subseteq reqs[r].aug
            /\ ("db" \in reqs[r].aug) <=> CfgDb(reqs[r].svc)
            /\ reqs[r].db = IF CfgDb(reqs[r].svc) THEN reqs[r].svc ELSE 0
            /\ \A q \in 1..Len(reqs) :
                  (reqs[q].invoked = 1 /\ reqs[q].svc = reqs[r].svc) =>
                      (reqs[q].db = reqs[r].db /\ reqs[q].aug = reqs[r].aug)

\* Two requests of the service with a database carry its handle, one of
\* them a loopback request.
C18_Witness ==
    \E r, q \in 1..Len(reqs) :
        /\ r # q
        /\ reqs[r].svc = 1 /\ reqs[q].svc = 1
        /\ reqs[r].invoked = 1 /\ reqs[q].invoked = 1
        /\ reqs[q].from = r
        /\ reqs[r].db = 1 /\ reqs[q].db = 1
        /\ "put" \in reqs[q].aug

(* ------------------------------- C19 ----------------------------------- *)
\* C19 as stated: a call on the top-level LOOPBACK outside a request is
\* sent to the path or URL as supplied, with no user agent put in, before
\* apply() and after.
C19_TopLevelCallDirect ==
    /\ top # NoTop => (top.url = top.target /\ top.ua = "")
    /\ top.child # 0 => reqs[top.child].ua = "node"

\* C19, amended: before apply() has run the call is sent to the path or
\* URL as supplied, with no user agent put in; after apply() has run it is
\* sent to http://localhost:<port of the configuration applied last>
\* followed by what was supplied, with the user agent "Loopback".
C19_TopLevelCallFollowsApply ==
    top # NoTop =>
        IF ~top.applied
        THEN /\ top.url = top.target /\ top.ua = ""
             /\ top.child # 0 => reqs[top.child].ua = "node"
        ELSE /\ \E s \in Services :
                   /\ pcApply[s] # "new"
                   /\ top.url = "http://localhost:" \o ToString(PortOf(s)) \o top.target
             /\ top.ua = "Loopback"
             /\ top.child # 0 => reqs[top.child].ua = "Loopback"
             /\ top.ok => top.target = "/hello"

\* After apply(), a top-level get("/hello") reached the service, which
\* saw the agent "Loopback".
C19_Witness ==
    /\ top.applied /\ top.pc = "done" /\ top.ok /\ top.target = "/hello"
    /\ top.url = "http://localhost:8000/hello"
    /\ top.ret = Str("Hello")
    /\ reqs[top.child].ua = "Loopback"
    /\ reqs[top.child].handler = "hello"

(* ------------------------------- C20 ----------------------------------- *)
\* The statement with a clause for every argument that is given.
ClausesGiven(st) ==
    "SELECT * FROM " \o st.name
        \o (IF st.offset # Undefined THEN " OFFSET " \o ToString(st.offset.n) ELSE "")
        \o (IF st.limit # Undefined THEN " LIMIT " \o ToString(st.limit.n) ELSE "")

\* The statement with a clause for every argument that is given and is
\* not 0.
ClausesNonZero(st) ==
    "SELECT * FROM " \o st.name
        \o (IF st.offset # Undefined /\ st.offset.n # 0
            THEN " OFFSET " \o ToString(st.offset.n) ELSE "")
        \o (IF st.limit # Undefined /\ st.limit.n # 0
            THEN " LIMIT " \o ToString(st.limit.n) ELSE "")

\* C20 as stated: the statement is SELECT * FROM <name>, then OFFSET
\* <offset> when an offset is given, then LIMIT <limit> when a limit is
\* given; and the caller gets no value.
C20_ClausesWhenGiven ==
    /\ sql # NoSql => sql.text = ClausesGiven(sql)
    /\ \A r \in 1..Len(reqs) :
          /\ reqs[r].stmt # NoSql => reqs[r].stmt.text = ClausesGiven(reqs[r].stmt)
          /\ (reqs[r].handler = "dump" /\ reqs[r].pc = "done" /\ ~reqs[r].threw) =>
                reqs[r].ret = Undefined

\* C20, amended: the statement is SELECT * FROM <name>, then OFFSET
\* <offset> when an offset is given and is not 0, then LIMIT <limit> when
\* a limit is given and is not 0, OFFSET ahead of LIMIT; the promise the
\* caller gets carries no value: it fulfils with undefined, or rejects
\* when the database refuses the statement, as it does every statement
\* with the OFFSET clause.
C20_ClausesWhenNonZero ==
    /\ sql # NoSql => sql.text = ClausesNonZero(sql)
    /\ \A r \in 1..Len(reqs) :
          /\ reqs[r].stmt # NoSql => reqs[r].stmt.text = ClausesNonZero(reqs[r].stmt)
          /\ (reqs[r].handler = "dump" /\ reqs[r].pc = "done" /\ ~reqs[r].threw) =>
                /\ reqs[r].ret = Undefined /\ ~reqs[r].res.sent
                /\ ~Truthy(reqs[r].stmt.offset)
          /\ (reqs[r].handler = "dump" /\ reqs[r].pc = "done"
                /\ Truthy(reqs[r].stmt.offset)) =>
                /\ reqs[r].threw
                /\ reqs[r].res.status = 500
                /\ reqs[r].res.body = "Error! Error: SQLITE_ERROR: near \""
                                          \o ToStr(reqs[r].stmt.offset)
                                          \o "\": syntax error"

\* dump_table("T", 10, 5) issued SELECT * FROM T OFFSET 5 LIMIT 10, which
\* the database refused; dump_table("T", 10) issued SELECT * FROM T LIMIT
\* 10 and its promise fulfilled with no value.
C20_Witness ==
    \E r, q \in 1..Len(reqs) :
        /\ reqs[r].stmt = [name |-> "T", limit |-> Num(10), offset |-> Num(5),
                           text |-> "SELECT * FROM T OFFSET 5 LIMIT 10"]
        /\ reqs[r].pc = "done" /\ reqs[r].threw
        /\ reqs[q].stmt.text = "SELECT * FROM T LIMIT 10"
        /\ reqs[q].handler = "dump" /\ reqs[q].pc = "done" /\ ~reqs[q].threw

====
